---------------------------- MODULE Spec2Model ----------------------------
(***************************************************************************)
(* Layered label propagation (src/src/algo/llp/mod.rs).                    *)
(*                                                                         *)
(* The specifications of this module:                                 *)
(*   SpecInvert  / FairInvert : invert_in_place, stepped as the code's     *)
(*                              loops, run twice on every permutation;     *)
(*   SpecCombine              : combine, applied to every pair of label    *)
(*                              arrays of bounded length;                  *)
(*   Spec                     : the gamma loop of                          *)
(*                              layered_label_propagation with its         *)
(*                              parallel passes, one step per atomic       *)
(*                              memory operation of a worker.              *)
(* Arrays are functions over 0..n-1, as the code indexes them.             *)
(*                                                                         *)
(* label_store, par_apply, gap_cost and preds are modules of the crate     *)
(* whose files are not among the sources; they follow the specification    *)
(* (sections 4.1, 4.3, 4.4).  The gain is a quotient of floating-point     *)
(* sums that no predicate of the model reads.  A run ends with gpc =       *)
(* "done" (Ok), "error" (Err, its context in err) or "panic".              *)
(***************************************************************************)
EXTENDS Integers, Sequences, FiniteSets, TLC

VARIABLES
    inv,          \* invert_in_place under SpecInvert
    cmb,          \* combine under SpecCombine
    input,        \* the arguments of layered_label_propagation
    err,          \* the context of the error returned, "" when there is none
    gpc,          \* where the calling thread is in layered_label_propagation
    gamma_index,  \* index of the gamma being run
    update,       \* the loop variable of `for update in 0..`
    seed,         \* the shared seed counter
    update_perm,  \* the permutation buffer
    chunks,       \* chunks of update_perm the parallel shuffle has still to do
    label,        \* label_store: label of each node
    volume,       \* label_store: volume of each label, a machine word
    can_change,   \* the per-node flags
    modified,     \* the per-pass counter of changed nodes
    obj_func,     \* the cumulative objective of the current gamma
    next_node,    \* par_apply: first position not yet handed to a worker
    wk,           \* the local state of each worker of the pool
    costs,        \* log-gap cost recorded for each finished gamma
    files,        \* the label files written so far, by gamma index
    gamma_indices,\* the gamma indices sorted by descending cost
    result_labels,\* the labels being combined
    step,         \* the loop variable i of the combine loop
    calls,        \* history: gamma index of the labels of each combine call
    ret,          \* history: what the two combine calls of the last step returned
    chunk_seed,   \* history: seed taken by each chunk of the current shuffle
    handed,       \* history: the seeds taken by the chunks of the whole run
    visits,       \* history: visits of each node in the current pass
    writes,       \* history: label stores to each node in the current pass
    stale,        \* history: arcs <<v, u>> with label[u] stored after v last read it
    evals,        \* history: predicate evaluations in the current gamma
    last_eval,    \* history: parameters and outcome of the last evaluation
    run,          \* 0 in a single call; 1, then 2, when the call is made twice
    first,        \* the label files and the labelling of the first of two calls
    rng           \* the values the generators and the hasher have shown so far

(***************************************************************************)
(* Bounds of the model.                                                    *)
(***************************************************************************)
MaxPermLen == 4
MaxLabLen == 3
MaxUpdates == 3

Idx(n) == 0 .. (n - 1)

Identity(n) == [i \in Idx(n) |-> i]

Perms(n) == {f \in [Idx(n) -> Idx(n)] : \A i, j \in Idx(n) : f[i] = f[j] => i = j}

Len0(a) == Cardinality(DOMAIN a)

(***************************************************************************)
(* invert_in_place.  A usize whose sign bit is set is modelled by the      *)
(* negative integer it is when read as isize, so that !k is -k-1.          *)
(***************************************************************************)
Not(x) == 0 - x - 1

InvStart(p) == [perm |-> p, n |-> 0, i |-> 0, k |-> 0, pc |-> "outer"]

\* InvOuter with `let mut k = n` written as `let mut k = i`
InvOuterWrongK(s) ==
    IF s.n >= Len0(s.perm) THEN [s EXCEPT !.pc = "done"]
    ELSE LET i == s.perm[s.n] IN
         IF i < 0 THEN [s EXCEPT !.perm[s.n] = Not(i), !.n = s.n + 1]
         ELSE IF i # s.n THEN [s EXCEPT !.i = i, !.k = i, !.pc = "walk"]
         ELSE [s EXCEPT !.n = s.n + 1]

\* the head of one iteration of `for n in 0..perm.len()`
InvOuter(s) ==
    IF s.n >= Len0(s.perm) THEN [s EXCEPT !.pc = "done"]
    ELSE LET i == s.perm[s.n] IN
         IF i < 0 THEN [s EXCEPT !.perm[s.n] = Not(i), !.n = s.n + 1]
         ELSE IF i # s.n THEN [s EXCEPT !.i = i, !.k = s.n, !.pc = "walk"]
         ELSE [s EXCEPT !.n = s.n + 1]

\* InvWalk without the assignment `k = i`
InvWalkStaleK(s) ==
    IF s.i \notin DOMAIN s.perm THEN [s EXCEPT !.pc = "panic"] ELSE
    LET j == s.perm[s.i]
        p1 == [s.perm EXCEPT ![s.i] = Not(s.k)]
    IN  IF j = s.n
        THEN [s EXCEPT !.perm = [p1 EXCEPT ![s.n] = s.i],
                       !.n = s.n + 1, !.i = 0, !.k = 0, !.pc = "outer"]
        ELSE [s EXCEPT !.perm = p1, !.i = j]

\* one iteration of the inner `loop`; the slice index perm[i] is bounds-checked
InvWalk(s) ==
    IF s.i \notin DOMAIN s.perm THEN [s EXCEPT !.pc = "panic"] ELSE
    LET j == s.perm[s.i]
        p1 == [s.perm EXCEPT ![s.i] = Not(s.k)]
    IN  IF j = s.n
        THEN [s EXCEPT !.perm = [p1 EXCEPT ![s.n] = s.i],
                       !.n = s.n + 1, !.i = 0, !.k = 0, !.pc = "outer"]
        ELSE [s EXCEPT !.perm = p1, !.k = s.i, !.i = j]

InvStep(s) == IF s.pc = "outer" THEN InvOuter(s) ELSE InvWalk(s)

RECURSIVE InvRun(_)
InvRun(s) == IF s.pc \in {"done", "panic"} THEN s.perm ELSE InvRun(InvStep(s))

invert_in_place(p) == InvRun(InvStart(p))

(***************************************************************************)
(* combine.                                                                *)
(***************************************************************************)
\* CombineLess without the last `then_with`
CombineLessTwoKeys(result, labels, a, b) ==
    LET ka == <<result[labels[a]], labels[a]>>
        kb == <<result[labels[b]], labels[b]>>
    IN  \/ ka[1] < kb[1]
        \/ ka[1] = kb[1] /\ ka[2] < kb[2]

\* the comparator chain of the closure handed to par_sort_by, as "a before b"
CombineLess(result, labels, a, b) ==
    LET ka == <<result[labels[a]], labels[a], result[a]>>
        kb == <<result[labels[b]], labels[b], result[b]>>
    IN  \/ ka[1] < kb[1]
        \/ ka[1] = kb[1] /\ ka[2] < kb[2]
        \/ ka[1] = kb[1] /\ ka[2] = kb[2] /\ ka[3] < kb[3]

\* par_sort_by on a slice holding the identity: a stable sort, so that equal
\* elements keep their index order.  less is the comparator, as the set of
\* the pairs <<a, b>> it orders a before b.
StableSortIdentity(n, less) ==
    LET Rank(a) == Cardinality({b \in Idx(n) :
                        <<b, a>> \in less \/ (<<a, b>> \notin less /\ b < a)})
    IN  [p \in Idx(n) |-> CHOOSE a \in Idx(n) : Rank(a) = p]

\* the closure of combine over all pairs of elements
CombineOrder(result, labels) ==
    {ab \in Idx(Len0(result)) \X Idx(Len0(result)) :
        CombineLess(result, labels, ab[1], ab[2])}

\* CombineWalk comparing only the result half of the pairs
RECURSIVE CombineWalkResultOnly(_, _, _, _, _, _, _)
CombineWalkResultOnly(result, old, labels, temp, i, prev, curr) ==
    IF i >= Len0(temp)
    THEN [result |-> result, k |-> curr + 1, temp |-> temp, panic |-> FALSE]
    ELSE LET cl == <<old[temp[i]], labels[temp[i]]>>
             c2 == IF prev[1] # cl[1] THEN curr + 1 ELSE curr
         IN  CombineWalkResultOnly([result EXCEPT ![temp[i]] = c2], old, labels,
                                   temp, i + 1, cl, c2)

\* the loop `for i in 1..temp_perm.len()`
RECURSIVE CombineWalk(_, _, _, _, _, _, _)
CombineWalk(result, old, labels, temp, i, prev, curr) ==
    IF i >= Len0(temp)
    THEN [result |-> result, k |-> curr + 1, temp |-> temp, panic |-> FALSE]
    ELSE LET cl == <<old[temp[i]], labels[temp[i]]>>
             c2 == IF prev # cl THEN curr + 1 ELSE curr
         IN  CombineWalk([result EXCEPT ![temp[i]] = c2], old, labels, temp,
                         i + 1, cl, c2)

\* the body of combine after the sort; temp_perm[0] panics on an empty slice
CombineNumber(result, labels, temp) ==
    IF Len0(temp) = 0
    THEN [result |-> result, k |-> 0, temp |-> temp, panic |-> TRUE]
    ELSE CombineWalk([result EXCEPT ![temp[0]] = 0], result, labels, temp, 1,
                     <<result[temp[0]], labels[temp[0]]>>, 0)

\* combine returning `Ok(curr_label)` instead of `Ok(curr_label + 1)`
combineLastId(result, labels) ==
    LET out == CombineNumber(result, labels,
                   StableSortIdentity(Len0(result), CombineOrder(result, labels)))
    IN  [out EXCEPT !.k = out.k - 1]

combine(result, labels) ==
    CombineNumber(result, labels,
        StableSortIdentity(Len0(result), CombineOrder(result, labels)))

(***************************************************************************)
(* layered_label_propagation: inputs.                                      *)
(***************************************************************************)
\* symmetric loopless graphs, as the successor list of each node
Path3 == [v \in Idx(3) |-> IF v = 1 THEN <<0, 2>> ELSE <<1>>]

EdgeAndIsolated ==
    [v \in Idx(3) |-> IF v = 0 THEN <<1>> ELSE IF v = 1 THEN <<0>> ELSE <<>>]

Edge2 == [v \in Idx(2) |-> <<1 - v>>]

\* three nodes and no arc
Isolated3 == [v \in Idx(3) |-> <<>>]

\* the graph without nodes
NoNodes == [v \in Idx(0) |-> <<>>]

\* the path 0 - 2 - 1, whose middle node has the largest id
Star3 == [v \in Idx(3) |-> IF v = 2 THEN <<0, 1>> ELSE <<2>>]

Graphs == {Path3, EdgeAndIsolated, Edge2, Isolated3, Star3}

\* a gamma is <<numerator, denominator>>; 0 and 1/2 are exact as f64
GammaSchedules == { << <<1, 2>> >>, << <<0, 1>>, <<1, 2>> >> }

ChunkSizes == {1, 2, 3}

Granularities == {1, 2}

\* the stopping predicates: an absolute cap on the number of updates
Predicates == [max_updates : 1 .. MaxUpdates]

PredEval(pred, params) == params.update + 1 >= pred.max_updates

\* the runs explored: every single-threaded one; with two threads,
\* Isolated3 with every schedule, Edge2 with one gamma, and with two gammas
\* of at most two updates, EdgeAndIsolated with one gamma of at most two
\* updates, and the first update of Path3 with one gamma
SeqInputs ==
    [graph : Graphs, gammas : GammaSchedules, chunk_size : ChunkSizes,
     granularity : Granularities, num_threads : {1},
     predicate : Predicates, seed : {0}]

ParInputs ==
    [graph : {Edge2}, gammas : {s \in GammaSchedules : Len(s) = 1},
     chunk_size : {c \in ChunkSizes : c <= 2}, granularity : Granularities,
     num_threads : {2}, predicate : Predicates, seed : {0}]
    \cup
    [graph : {Edge2}, gammas : GammaSchedules,
     chunk_size : {c \in ChunkSizes : c <= 2}, granularity : Granularities,
     num_threads : {2}, predicate : {p \in Predicates : p.max_updates <= 2},
     seed : {0}]
    \cup
    [graph : {EdgeAndIsolated}, gammas : {s \in GammaSchedules : Len(s) = 1},
     chunk_size : ChunkSizes, granularity : Granularities, num_threads : {2},
     predicate : {p \in Predicates : p.max_updates <= 2}, seed : {0}]
    \cup
    [graph : {Path3}, gammas : {s \in GammaSchedules : Len(s) = 1},
     chunk_size : ChunkSizes, granularity : Granularities, num_threads : {2},
     predicate : {p \in Predicates : p.max_updates = 1}, seed : {0}]
    \cup
    [graph : {Isolated3}, gammas : GammaSchedules, chunk_size : ChunkSizes,
     granularity : Granularities, num_threads : {2},
     predicate : Predicates, seed : {0}]

\* the runs on no node or with no gamma
EmptyInputs ==
    [graph : {NoNodes}, gammas : GammaSchedules \cup {<<>>}, chunk_size : {1},
     granularity : {1}, num_threads : {1, 2}, predicate : Predicates,
     seed : {0}]
    \cup
    [graph : Graphs, gammas : {<<>>}, chunk_size : {1}, granularity : {1},
     num_threads : {1, 2}, predicate : Predicates, seed : {0}]

Inputs == SeqInputs \cup ParInputs \cup EmptyInputs

NumNodes == Len0(input.graph)

Successors(v) == input.graph[v]

Outdegree(v) == Len(input.graph[v])

Nodes == Idx(NumNodes)

Workers == 1 .. input.num_threads

Gamma == input.gammas[gamma_index + 1]

RECURSIVE SumOver(_, _)
SumOver(f, S) ==
    IF S = {} THEN 0
    ELSE LET x == CHOOSE y \in S : TRUE IN f[x] + SumOver(f, S \ {x})

SetMin(S) == CHOOSE x \in S : \A y \in S : x <= y

SetMax(S) == CHOOSE x \in S : \A y \in S : y <= x

(***************************************************************************)
(* The permutation buffer: chunked shuffle.                                *)
(***************************************************************************)
NumChunks == (NumNodes + input.chunk_size - 1) \div input.chunk_size

ChunkOf(c) ==
    {p \in Nodes : c * input.chunk_size <= p /\ p < (c + 1) * input.chunk_size}

\* perm with the positions of chunk c holding the values of s
WithChunk(perm, c, s) ==
    [p \in Nodes |-> IF p \in ChunkOf(c) THEN s[p] ELSE perm[p]]

\* ChunkShuffles drawing the elements of the chunk with replacement
ChunkShufflesRepeat(perm, c) ==
    {WithChunk(perm, c, s) :
        s \in [ChunkOf(c) -> {perm[p] : p \in ChunkOf(c)}]}

\* chunk.shuffle(&mut rand): the slice with the positions of chunk c permuted;
\* every permutation is the outcome of some generator state
ChunkShuffles(perm, c) ==
    {WithChunk(perm, c, s) :
        s \in {t \in [ChunkOf(c) -> {perm[p] : p \in ChunkOf(c)}] :
                  \A p1, p2 \in ChunkOf(c) : t[p1] = t[p2] => p1 = p2}}

(***************************************************************************)
(* par_apply: the ranges handed to the workers.                            *)
(***************************************************************************)
\* the cumulative out-degree of the nodes below i, for i in 0..n
DegCumul == [i \in 0 .. NumNodes |->
                SumOver([v \in Nodes |-> Outdegree(v)], Idx(i))]

\* the end of the range starting at start: the first node whose cumulative
\* degree reaches granularity more arcs, or n
RangeEnd(start) ==
    LET ends == {e \in 0 .. NumNodes :
                    DegCumul[e] >= DegCumul[start] + input.granularity}
    IN  IF ends = {} THEN NumNodes ELSE SetMin(ends)

(***************************************************************************)
(* The score of a label.  volume is an unsigned word, kept here as the     *)
(* integer it is when read as a signed word, so that 0 - 1 is -1, the      *)
(* word usize::MAX.  A score is <<hi, lo>>, the f64 value                  *)
(* (hi * 2^64 + lo) / denominator of gamma, compared lexicographically.    *)
(***************************************************************************)
\* `volume + 1` on usize::MAX panics in a build with overflow checks and is 0
\* in one without
OverflowOutcomes == {"panic", "wrap"}

\* (volume + 1) as f64, as <<multiple of 2^64, rest>>: words of 2^64 - 1023
\* and more round to 2^64
Plus1AsF64(v) ==
    IF v >= 0 THEN <<0, v + 1>> ELSE IF v = -1 THEN <<0, 0>> ELSE <<1, 0>>

\* (1.0 + gamma) * count as f64 - gamma * (volume + 1) as f64; a count of the
\* model is absorbed by the rounding when the other term is gamma * 2^64
Val(gamma, count, v) ==
    LET p == Plus1AsF64(v)
        hi == 0 - gamma[1] * p[1]
    IN  IF hi # 0 THEN <<hi, 0>>
        ELSE <<0, (gamma[2] + gamma[1]) * count - gamma[1] * p[2]>>

ValLess(a, b) == a[1] < b[1] \/ (a[1] = b[1] /\ a[2] < b[2])

\* a + b and a - b on f64: next to a multiple of 2^64 the rest is absorbed
F64Add(a, b) == IF a[1] + b[1] # 0 THEN <<a[1] + b[1], 0>> ELSE <<0, a[2] + b[2]>>

F64Sub(a, b) == IF a[1] - b[1] # 0 THEN <<a[1] - b[1], 0>> ELSE <<0, a[2] - b[2]>>

(***************************************************************************)
(* Per-gamma permutation and its log-gap cost.                             *)
(***************************************************************************)
\* the closure of the sort by label over all pairs of nodes
LabelOrder(lab) == {ab \in Nodes \X Nodes : lab[ab[1]] < lab[ab[2]]}

\* SortedByLabel without invert_in_place
SortedByLabelNotInverted(lab) == StableSortIdentity(NumNodes, LabelOrder(lab))

\* update_perm after the identity reset, par_sort_by and invert_in_place
SortedByLabel(lab) ==
    invert_in_place(StableSortIdentity(NumNodes, LabelOrder(lab)))

CeilLog2(x) == SetMin({k \in 0 .. x : 2 ^ k >= x})

\* the cost of the successor list of node x in the graph renumbered by perm
NodeGapCost(perm, x) ==
    LET S == {perm[Successors(x)[j]] : j \in 1 .. Outdegree(x)}
        Prev(e) == IF e = SetMin(S) THEN perm[x]
                   ELSE SetMax({f \in S : f < e})
        Gap(e) == IF e >= Prev(e) THEN e - Prev(e) ELSE Prev(e) - e
    IN  SumOver([e \in S |-> CeilLog2(1 + Gap(e))], S)

LogGapCost(perm) == SumOver([x \in Nodes |-> NodeGapCost(perm, x)], Nodes)

-----------------------------------------------------------------------------
llpVars ==
    <<input, err, gpc, gamma_index, update, seed, update_perm, chunks, label,
      volume, can_change, modified, obj_func, next_node, wk, costs, files,
      gamma_indices, result_labels, step, calls, ret, chunk_seed, handed,
      visits,
      writes, stale, evals, last_eval, run, first, rng>>

\* the state of the combine phase
fin == <<gamma_indices, result_labels, step, calls, ret>>

\* no combine call has returned
NoRet == [first |-> 0, mid |-> <<>>, second |-> 0]

\* the error returned
io == <<err>>

\* the state of a call made twice
twice == <<run, first>>

\* no value of a generator or of the hasher is known
NoDraws == [shuffle |-> <<>>, order |-> <<>>, pick |-> <<>>]

\* the history of the seeds
shuf == <<chunk_seed, handed>>

vars == <<inv, cmb, llpVars>>

InvOff == [pc |-> "off"]
CmbOff == [pc |-> "off"]

LlpOff ==
    /\ input = <<>> /\ gpc = "off" /\ gamma_index = 0 /\ update = 0
    /\ err = "" /\ obj_func = <<0, 0>> /\ calls = <<>> /\ ret = <<>>
    /\ chunk_seed = <<>>
    /\ handed = <<>> /\ run = 0 /\ first = <<>> /\ rng = NoDraws
    /\ seed = 0 /\ update_perm = <<>> /\ chunks = {} /\ label = <<>>
    /\ volume = <<>> /\ can_change = <<>> /\ modified = 0 /\ next_node = 0
    /\ wk = <<>> /\ costs = <<>> /\ files = <<>> /\ visits = <<>>
    /\ gamma_indices = <<>> /\ result_labels = <<>> /\ step = 0
    /\ writes = <<>> /\ stale = {} /\ evals = 0 /\ last_eval = <<>>

(***************************************************************************)
(* Spec: layered_label_propagation.  The atomics are relaxed; the model    *)
(* interleaves them in one total order, which relaxed atomics allow.       *)
(***************************************************************************)
WIdle ==
    [pc |-> "idle", lo |-> 0, hi |-> 0, pos |-> 0, node |-> 0, curr |-> 0,
     map |-> <<>>, todo |-> {}, i |-> 0, max |-> <<0, 0>>, old |-> <<0, 0>>,
     vals |-> <<>>,
     maj |-> {}, next |-> 0, obj |-> <<0, 0>>, lens |-> <<>>]

\* the outcomes of ilog2_ceil on 0, a function of another crate
Ilog2CeilOfZero == {"panic", "returns"}

\* the state at the call: the buffers of lines 102 to 106
AtCall ==
    /\ err = ""
    /\ obj_func = <<0, 0>>
    /\ calls = <<>>
    /\ ret = NoRet
    /\ chunk_seed = <<>>
    /\ handed = <<>>
    /\ gpc = "setup"
    /\ gamma_index = 0
    /\ update = 0
    /\ seed = input.seed
    /\ update_perm = Identity(NumNodes)
    /\ chunks = {}
    /\ label = Identity(NumNodes)
    /\ volume = [l \in Nodes |-> 1]
    /\ can_change = [v \in Nodes |-> TRUE]
    /\ modified = 0
    /\ next_node = 0
    /\ wk = [w \in Workers |-> WIdle]
    /\ costs = <<>>
    /\ files = <<>>
    /\ gamma_indices = <<>>
    /\ result_labels = <<>>
    /\ step = 0
    /\ visits = [v \in Nodes |-> 0]
    /\ writes = [v \in Nodes |-> 0]
    /\ stale = {}
    /\ evals = 0
    /\ last_eval = <<>>
    /\ inv = InvOff
    /\ cmb = CmbOff
    /\ first = <<>>
    /\ rng = NoDraws

\* one call of layered_label_propagation
Init ==
    /\ input \in Inputs
    /\ run = 0
    /\ AtCall

\* the stack size and the thread pool: ilog2_ceil may panic on no node, the
\* build of the pool may fail, and then the gamma loop starts
Setup ==
    /\ gpc = "setup"
    /\ \/ /\ NumNodes = 0
          /\ "panic" \in Ilog2CeilOfZero
          /\ gpc' = "panic"
          /\ UNCHANGED err
       \/ /\ gpc' = "error"
          /\ err' = "Could not create thread pool"
       \/ /\ NumNodes = 0 => "returns" \in Ilog2CeilOfZero
          /\ gpc' = IF Len(input.gammas) > 0 THEN "gamma" ELSE "combine"
          /\ UNCHANGED err
    /\ UNCHANGED <<inv, cmb, twice, rng, fin, shuf, obj_func, input, gamma_index, update,
                   seed, update_perm, chunks, label, volume, can_change,
                   modified, next_node, wk, costs, files, visits, writes,
                   stale, evals, last_eval>>

\* label_store.init(): label[v] = v, volume[v] = 1
LabelStoreInit ==
    /\ label' = Identity(NumNodes)
    /\ volume' = [l \in Nodes |-> 1]

\* GammaStart without the stores of true into can_change
GammaStartKeepFlags ==
    /\ gpc = "gamma"
    /\ LabelStoreInit
    /\ obj_func' = <<0, 0>>
    /\ update' = 0
    /\ gpc' = "update"
    /\ stale' = {}
    /\ evals' = 0
    /\ last_eval' = <<>>
    /\ UNCHANGED <<inv, cmb, twice, rng, fin, io, shuf, input, gamma_index, seed,
                   update_perm, chunks, modified, next_node, wk, costs, files,
                   visits, writes, can_change>>

\* the head of the gamma loop: reset of the mutable state
GammaStart ==
    /\ gpc = "gamma"
    /\ LabelStoreInit
    /\ can_change' = [v \in Nodes |-> TRUE]
    /\ obj_func' = <<0, 0>>
    /\ update' = 0
    /\ gpc' = "update"
    /\ stale' = {}
    /\ evals' = 0
    /\ last_eval' = <<>>
    /\ UNCHANGED <<inv, cmb, twice, rng, fin, io, shuf, input, gamma_index, seed,
                   update_perm, chunks, modified, next_node, wk, costs, files,
                   visits, writes>>

\* the head of `for update in 0..`: the identity reset of update_perm
BeginUpdate ==
    /\ gpc = "update"
    /\ update_perm' = Identity(NumNodes)
    /\ chunks' = Idx(NumChunks)
    /\ chunk_seed' = <<>>
    /\ gpc' = "shuffle"
    /\ UNCHANGED <<inv, cmb, twice, rng, fin, io, handed, obj_func, input, gamma_index,
                   update, seed, label, volume, can_change, modified,
                   next_node, wk, costs, files, visits, writes, stale, evals,
                   last_eval>>

\* the chunks the pool can run next: a pool of one thread runs them in the
\* order of the slice, a larger one in any order
NextChunks ==
    IF input.num_threads = 1 THEN {c \in chunks : \A d \in chunks : c <= d}
    ELSE chunks

\* f with the value v at k
Put(f, k, v) == [x \in DOMAIN f \cup {k} |-> IF x = k THEN v ELSE f[x]]

\* SmallRng::seed_from_u64(seed) and chunk.shuffle: the generator is a
\* function of its seed, and the shuffle one of the generator and of the
\* length of the chunk
ShuffleKey(c) == <<seed, Cardinality(ChunkOf(c))>>

\* the shuffle that made perm of the identity, on the offsets in chunk c
ShuffleDraw(perm, c) ==
    [i \in Idx(Cardinality(ChunkOf(c))) |->
        perm[c * input.chunk_size + i] - c * input.chunk_size]

\* a call made twice shuffles with the same generators both times
ShuffleAllowed(perm, c) ==
    run > 0 /\ ShuffleKey(c) \in DOMAIN rng.shuffle
        => ShuffleDraw(perm, c) = rng.shuffle[ShuffleKey(c)]

ShuffleDrawn(perm, c) ==
    IF run > 0
    THEN [rng EXCEPT !.shuffle = Put(@, ShuffleKey(c), ShuffleDraw(perm, c))]
    ELSE rng

\* ShuffleChunk loading the seed without adding to it
ShuffleChunkLoad ==
    /\ gpc = "shuffle"
    /\ \E c \in NextChunks :
         /\ update_perm' \in ChunkShuffles(update_perm, c)
         /\ ShuffleAllowed(update_perm', c)
         /\ rng' = ShuffleDrawn(update_perm', c)
         /\ chunks' = chunks \ {c}
         /\ chunk_seed' = [d \in DOMAIN chunk_seed \cup {c} |->
                              IF d = c THEN seed ELSE chunk_seed[d]]
    /\ handed' = Append(handed, seed)
    /\ seed' = seed
    /\ UNCHANGED <<inv, cmb, twice, fin, io, obj_func, input, gpc, gamma_index,
                   update, label, volume, can_change, modified, next_node, wk,
                   costs, files, visits, writes, stale, evals, last_eval>>

\* the closure of par_chunks_mut on one chunk: seed.fetch_add(1), the
\* generator seeded with the value read, the shuffle of the chunk
ShuffleChunk ==
    /\ gpc = "shuffle"
    /\ \E c \in NextChunks :
         /\ update_perm' \in ChunkShuffles(update_perm, c)
         /\ ShuffleAllowed(update_perm', c)
         /\ rng' = ShuffleDrawn(update_perm', c)
         /\ chunks' = chunks \ {c}
         /\ chunk_seed' = [d \in DOMAIN chunk_seed \cup {c} |->
                              IF d = c THEN seed ELSE chunk_seed[d]]
    /\ handed' = Append(handed, seed)
    /\ seed' = seed + 1
    /\ UNCHANGED <<inv, cmb, twice, fin, io, obj_func, input, gpc, gamma_index,
                   update, label, volume, can_change, modified, next_node, wk,
                   costs, files, visits, writes, stale, evals, last_eval>>

\* modified = 0 and the start of par_apply
StartPass ==
    /\ gpc = "shuffle"
    /\ chunks = {}
    /\ modified' = 0
    /\ next_node' = 0
    /\ wk' = [w \in Workers |-> [WIdle EXCEPT !.pc = "grab"]]
    /\ visits' = [v \in Nodes |-> 0]
    /\ writes' = [v \in Nodes |-> 0]
    /\ chunk_seed' = <<>>
    /\ gpc' = "pass"
    /\ UNCHANGED <<inv, cmb, twice, rng, fin, io, handed, obj_func, input, gamma_index,
                   update, seed, update_perm, chunks, label, volume,
                   can_change, costs, files, stale, evals, last_eval>>

\* a worker takes the next range of positions, or leaves when none is left
TakeRange(w) ==
    /\ gpc = "pass"
    /\ wk[w].pc = "grab"
    /\ IF next_node >= NumNodes
       THEN /\ wk' = [wk EXCEPT ![w] = [WIdle EXCEPT !.pc = "exit",
                                                       !.obj = wk[w].obj]]
            /\ UNCHANGED next_node
       ELSE /\ wk' = [wk EXCEPT ![w] = [WIdle EXCEPT !.pc = "load",
                                           !.obj = wk[w].obj,
                                           !.lo = next_node,
                                           !.hi = RangeEnd(next_node),
                                           !.pos = next_node]]
            /\ next_node' = RangeEnd(next_node)
    /\ UNCHANGED <<inv, cmb, twice, rng, fin, io, shuf, obj_func, input, gpc, gamma_index, update, seed,
                   update_perm, chunks, label, volume, can_change, modified,
                   costs, files, visits, writes, stale, evals, last_eval>>

\* `continue`, and the end of `for &node in &update_perm[range]`
NextVertex(r) ==
    IF r.pos + 1 >= r.hi THEN [WIdle EXCEPT !.pc = "grab", !.obj = r.obj]
    ELSE [WIdle EXCEPT !.pc = "load", !.lo = r.lo, !.hi = r.hi,
                       !.pos = r.pos + 1, !.obj = r.obj, !.lens = r.lens]

\* LoadFlag going on to the store whatever the flag holds
LoadFlagIgnored(w) ==
    /\ gpc = "pass"
    /\ wk[w].pc = "load"
    /\ LET node == update_perm[wk[w].pos]
       IN  /\ visits' = [visits EXCEPT ![node] = @ + 1]
           /\ wk' = [wk EXCEPT ![w] =
                       [wk[w] EXCEPT !.pc = "store", !.node = node]]
    /\ UNCHANGED <<inv, cmb, twice, rng, fin, io, shuf, obj_func, input, gpc, gamma_index, update, seed,
                   update_perm, chunks, label, volume, can_change, modified,
                   next_node, costs, files, writes, stale, evals, last_eval>>

\* can_change[node].load
LoadFlag(w) ==
    /\ gpc = "pass"
    /\ wk[w].pc = "load"
    /\ LET node == update_perm[wk[w].pos]
       IN  /\ visits' = [visits EXCEPT ![node] = @ + 1]
           /\ wk' = [wk EXCEPT ![w] =
                       IF can_change[node]
                       THEN [wk[w] EXCEPT !.pc = "store", !.node = node]
                       ELSE NextVertex(wk[w])]
    /\ UNCHANGED <<inv, cmb, twice, rng, fin, io, shuf, obj_func, input, gpc, gamma_index, update, seed,
                   update_perm, chunks, label, volume, can_change, modified,
                   next_node, costs, files, writes, stale, evals, last_eval>>

\* can_change[node].store(false), then the out-degree test
StoreFlag(w) ==
    /\ gpc = "pass"
    /\ wk[w].pc = "store"
    /\ can_change' = [can_change EXCEPT ![wk[w].node] = FALSE]
    /\ wk' = [wk EXCEPT ![w] =
                IF Outdegree(wk[w].node) = 0 THEN NextVertex(wk[w])
                ELSE [wk[w] EXCEPT !.pc = "curr"]]
    /\ UNCHANGED <<inv, cmb, twice, rng, fin, io, shuf, obj_func, input, gpc, gamma_index, update, seed,
                   update_perm, chunks, label, volume, modified, next_node,
                   costs, files, visits, writes, stale, evals, last_eval>>

\* curr_label = label_store.label(node); map.clear()
ReadCurr(w) ==
    /\ gpc = "pass"
    /\ wk[w].pc = "curr"
    /\ wk' = [wk EXCEPT ![w] = [wk[w] EXCEPT !.pc = "succ",
                                   !.curr = label[wk[w].node],
                                   !.map = <<>>, !.i = 1]]
    /\ UNCHANGED <<inv, cmb, twice, rng, fin, io, shuf, obj_func, input, gpc, gamma_index, update, seed,
                   update_perm, chunks, label, volume, can_change, modified,
                   next_node, costs, files, visits, writes, stale, evals,
                   last_eval>>

\* map.entry(l).and_modify(|counter| *counter += 1).or_insert(1)
MapCount(map, l) ==
    [k \in DOMAIN map \cup {l} |->
        IF k = l THEN (IF l \in DOMAIN map THEN map[l] + 1 ELSE 1) ELSE map[k]]

\* map.entry(l).or_insert(0)
MapOrInsert0(map, l) ==
    [k \in DOMAIN map \cup {l} |-> IF k \in DOMAIN map THEN map[k] ELSE 0]

\* ReadSucc reading the label of the node after the successor
ReadSuccNextId(w) ==
    /\ gpc = "pass"
    /\ wk[w].pc = "succ"
    /\ LET r == wk[w]
           u == (Successors(r.node)[r.i] + 1) % NumNodes
           m == MapCount(r.map, label[u])
           m0 == MapOrInsert0(m, r.curr)
       IN  /\ wk' = [wk EXCEPT ![w] =
                       IF r.i < Outdegree(r.node)
                       THEN [r EXCEPT !.map = m, !.i = r.i + 1]
                       ELSE [r EXCEPT !.map = m0, !.i = 0, !.pc = "score",
                                      !.todo = DOMAIN m0, !.maj = {},
                                      !.max = <<0, 0>>, !.old = <<0, 0>>]]
           /\ stale' = stale \ {<<r.node, u>>}
    /\ UNCHANGED <<inv, cmb, twice, rng, fin, io, shuf, obj_func, input, gpc, gamma_index, update, seed,
                   update_perm, chunks, label, volume, can_change, modified,
                   next_node, costs, files, visits, writes, evals, last_eval>>

\* one iteration of `for succ in successors`: label_store.label(succ) into
\* the histogram; after the last one the current label is added
ReadSucc(w) ==
    /\ gpc = "pass"
    /\ wk[w].pc = "succ"
    /\ LET r == wk[w]
           u == Successors(r.node)[r.i]
           m == MapCount(r.map, label[u])
           m0 == MapOrInsert0(m, r.curr)
       IN  /\ wk' = [wk EXCEPT ![w] =
                       IF r.i < Outdegree(r.node)
                       THEN [r EXCEPT !.map = m, !.i = r.i + 1]
                       ELSE [r EXCEPT !.map = m0, !.i = 0, !.pc = "score",
                                      !.todo = DOMAIN m0, !.maj = {},
                                      !.max = <<0, 0>>, !.old = <<0, 0>>]]
           /\ stale' = stale \ {<<r.node, u>>}
    /\ UNCHANGED <<inv, cmb, twice, rng, fin, io, shuf, obj_func, input, gpc, gamma_index, update, seed,
                   update_perm, chunks, label, volume, can_change, modified,
                   next_node, costs, files, visits, writes, evals, last_eval>>

\* Tally without `if max == val { majorities.push(label) }`
TallyFirstMax(r, l, val) ==
    LET more == r.maj = {} \/ ValLess(r.max, val)
    IN  [r EXCEPT !.maj = IF more THEN {l} ELSE r.maj,
                  !.max = IF more THEN val ELSE r.max,
                  !.old = IF l = r.curr THEN val ELSE r.old,
                  !.vals = Put(r.vals, l, val),
                  !.todo = r.todo \ {l}]

\* the body of `for (&label, &count) in map.iter()` after the volume is read:
\* max starts at -infinity, which maj = {} stands for; vals keeps the score
\* computed for each label
Tally(r, l, val) ==
    LET maj1 == IF r.maj # {} /\ r.max = val THEN r.maj \cup {l} ELSE r.maj
        more == r.maj = {} \/ ValLess(r.max, val)
    IN  [r EXCEPT !.maj = IF more THEN {l} ELSE maj1,
                  !.max = IF more THEN val ELSE r.max,
                  !.old = IF l = r.curr THEN val ELSE r.old,
                  !.vals = Put(r.vals, l, val),
                  !.todo = r.todo \ {l}]

\* after the loop: majorities.choose(&mut rand), the choice being next;
\* local_obj_func += max - old, which follows the commit and reads no
\* shared state, is taken here
Chosen(r, next) ==
    LET obj == F64Add(r.obj, F64Sub(r.max, r.old))
        lens == IF run > 0 THEN Append(r.lens, Cardinality(r.maj)) ELSE r.lens
    IN  IF next = r.curr THEN NextVertex([r EXCEPT !.obj = obj, !.lens = lens])
        ELSE [r EXCEPT !.pc = "mod", !.next = next, !.map = <<>>, !.maj = {},
                       !.max = <<0, 0>>, !.old = <<0, 0>>, !.obj = obj,
                       !.vals = <<>>, !.lens = lens]

\* label_store.volume_fetch_sub(label): the volume read and decremented in
\* one step
VolumeFetchSub(l) == volume' = [volume EXCEPT ![l] = @ - 1]

\* map.iter(): under a hasher without state the order of the entries is a
\* function of the keys
IterKey(r) == DOMAIN r.map

\* the entries of the map the loop has taken
Iterated(r) == Cardinality(DOMAIN r.map) - Cardinality(r.todo)

\* the entries the loop can take next: any of those left; in a call made
\* twice, the one that followed when the same keys were iterated before
NextEntries(r) ==
    IF /\ run > 0
       /\ IterKey(r) \in DOMAIN rng.order
       /\ Len(rng.order[IterKey(r)]) > Iterated(r)
    THEN {rng.order[IterKey(r)][Iterated(r) + 1]}
    ELSE r.todo

\* the order of the keys of r.map known after the loop has taken l
OrderAfter(r, l) ==
    LET old == IF IterKey(r) \in DOMAIN rng.order THEN rng.order[IterKey(r)]
               ELSE <<>>
    IN  IF Len(old) > Iterated(r) THEN old ELSE Append(old, l)

\* PickKey for a generator seeded anew in every call
PickKeyOfCall(r) == <<r.lo + run * (NumNodes + 1), Append(r.lens, Cardinality(r.maj))>>

\* SmallRng::seed_from_u64(range.start): the generator of a range is a
\* function of the start of the range, and what choose returns a function
\* of the generator and of the lengths of the slices it has chosen from
PickKey(r) == <<r.lo, Append(r.lens, Cardinality(r.maj))>>

\* the index of next in majorities, which holds the labels of r.maj in the
\* order ord of the iteration
PickDraw(r, ord, next) ==
    LET Pos(m) == CHOOSE i \in 1 .. Len(ord) : ord[i] = m
    IN  Cardinality({m \in r.maj : Pos(m) <= Pos(next)})

\* a call made twice breaks ties with the same generators both times
PickAllowed(r, ord, next) ==
    run > 0 /\ PickKey(r) \in DOMAIN rng.pick
        => PickDraw(r, ord, next) = rng.pick[PickKey(r)]

\* one iteration of the scoring loop, the entries of the map in any order;
\* after the last one the tie is broken
Score(w) ==
    /\ gpc = "pass"
    /\ wk[w].pc = "score"
    /\ \E l \in NextEntries(wk[w]) :
         /\ volume[l] = -1 => "wrap" \in OverflowOutcomes
         /\ VolumeFetchSub(l)
         /\ LET r == Tally(wk[w], l, Val(Gamma, wk[w].map[l], volume[l]))
                ord == OrderAfter(wk[w], l)
                iterated == [rng EXCEPT !.order = Put(@, IterKey(wk[w]), ord)]
            IN  IF r.todo # {}
                THEN /\ wk' = [wk EXCEPT ![w] = r]
                     /\ rng' = IF run > 0 THEN iterated ELSE rng
                ELSE \E next \in r.maj :
                       /\ PickAllowed(r, ord, next)
                       /\ wk' = [wk EXCEPT ![w] = Chosen(r, next)]
                       /\ rng' = IF run > 0
                                 THEN [iterated EXCEPT !.pick =
                                         Put(@, PickKey(r), PickDraw(r, ord, next))]
                                 ELSE rng
    /\ UNCHANGED <<inv, cmb, twice, fin, io, shuf, obj_func, input, gpc,
                   gamma_index, update, seed, update_perm, chunks, label,
                   can_change, modified, next_node, costs, files, visits,
                   writes, stale, evals, last_eval>>

\* the scoring loop on a volume of usize::MAX in a build with overflow
\* checks: `volume + 1` panics after the fetch_sub, and the run is over
ScoreOverflow(w) ==
    /\ gpc = "pass"
    /\ wk[w].pc = "score"
    /\ "panic" \in OverflowOutcomes
    /\ \E l \in NextEntries(wk[w]) :
         /\ volume[l] = -1
         /\ VolumeFetchSub(l)
    /\ gpc' = "panic"
    /\ UNCHANGED <<inv, cmb, twice, rng, fin, io, shuf, obj_func, input,
                   gamma_index, update, seed, update_perm, chunks, label,
                   can_change, modified, next_node, wk, costs, files, visits,
                   writes, stale, evals, last_eval>>

\* modified.fetch_add(1)
ModifiedInc(w) ==
    /\ gpc = "pass"
    /\ wk[w].pc = "mod"
    /\ modified' = modified + 1
    /\ wk' = [wk EXCEPT ![w] = [wk[w] EXCEPT !.pc = "flag", !.i = 1]]
    /\ UNCHANGED <<inv, cmb, twice, rng, fin, io, shuf, obj_func, input, gpc, gamma_index, update, seed,
                   update_perm, chunks, label, volume, can_change, next_node,
                   costs, files, visits, writes, stale, evals, last_eval>>

\* one iteration of `for succ in sym_graph.successors(node)`:
\* can_change[succ].store(true)
FlagSucc(w) ==
    /\ gpc = "pass"
    /\ wk[w].pc = "flag"
    /\ LET r == wk[w]
       IN  /\ can_change' = [can_change EXCEPT ![Successors(r.node)[r.i]] = TRUE]
           /\ wk' = [wk EXCEPT ![w] =
                       IF r.i < Outdegree(r.node) THEN [r EXCEPT !.i = r.i + 1]
                       ELSE [r EXCEPT !.i = 0, !.pc = "vs_dec"]]
    /\ UNCHANGED <<inv, cmb, twice, rng, fin, io, shuf, obj_func, input, gpc, gamma_index, update, seed,
                   update_perm, chunks, label, volume, modified, next_node,
                   costs, files, visits, writes, stale, evals, last_eval>>

\* label_store.volume_set(node, next_label), first step: the volume of the
\* old label is decremented
VolumeSetDec(w) ==
    /\ gpc = "pass"
    /\ wk[w].pc = "vs_dec"
    /\ volume' = [volume EXCEPT ![label[wk[w].node]] = @ - 1]
    /\ wk' = [wk EXCEPT ![w] = [wk[w] EXCEPT !.pc = "vs_store"]]
    /\ UNCHANGED <<inv, cmb, twice, rng, fin, io, shuf, obj_func, input, gpc, gamma_index, update, seed,
                   update_perm, chunks, label, can_change, modified,
                   next_node, costs, files, visits, writes, stale, evals,
                   last_eval>>

\* volume_set, second step: the new label is stored
VolumeSetStore(w) ==
    /\ gpc = "pass"
    /\ wk[w].pc = "vs_store"
    /\ label' = [label EXCEPT ![wk[w].node] = wk[w].next]
    /\ writes' = [writes EXCEPT ![wk[w].node] = @ + 1]
    /\ stale' = stale \cup {<<v, wk[w].node>> : v \in
                    {x \in Nodes : \E j \in 1 .. Outdegree(x) :
                                      Successors(x)[j] = wk[w].node}}
    /\ wk' = [wk EXCEPT ![w] = [wk[w] EXCEPT !.pc = "vs_inc"]]
    /\ UNCHANGED <<inv, cmb, twice, rng, fin, io, shuf, obj_func, input, gpc, gamma_index, update, seed,
                   update_perm, chunks, volume, can_change, modified,
                   next_node, costs, files, visits, evals, last_eval>>

\* volume_set, third step: the volume of the new label is incremented
VolumeSetInc(w) ==
    /\ gpc = "pass"
    /\ wk[w].pc = "vs_inc"
    /\ volume' = [volume EXCEPT ![wk[w].next] = @ + 1]
    /\ wk' = [wk EXCEPT ![w] = NextVertex(wk[w])]
    /\ UNCHANGED <<inv, cmb, twice, rng, fin, io, shuf, obj_func, input, gpc, gamma_index, update, seed,
                   update_perm, chunks, label, can_change, modified,
                   next_node, costs, files, visits, writes, stale, evals,
                   last_eval>>

\* the fold of par_apply: the sum of the local objectives of workers 1..n
RECURSIVE DeltaObjFunc(_)
DeltaObjFunc(n) ==
    IF n = 0 THEN <<0, 0>> ELSE F64Add(DeltaObjFunc(n - 1), wk[n].obj)

\* par_apply returns when every worker has left; obj_func += delta_obj_func
JoinPass ==
    /\ gpc = "pass"
    /\ \A w \in Workers : wk[w].pc = "exit"
    /\ wk' = [w \in Workers |-> WIdle]
    /\ obj_func' = F64Add(obj_func, DeltaObjFunc(input.num_threads))
    /\ gpc' = "eval"
    /\ UNCHANGED <<inv, cmb, twice, rng, fin, io, shuf, input, gamma_index, update, seed,
                   update_perm, chunks, label, volume, can_change, modified,
                   next_node, costs, files, visits, writes, stale, evals,
                   last_eval>>

\* EvalPredicate without `|| modified.load(Ordering::Relaxed) == 0`
EvalPredicateOnly ==
    /\ gpc = "eval"
    /\ LET params == [modified |-> modified, update |-> update]
           p == PredEval(input.predicate, params)
       IN  /\ last_eval' = [modified |-> params.modified,
                            update |-> params.update,
                            pred |-> p,
                            changed |-> Cardinality({v \in Nodes : writes[v] > 0})]
           /\ gpc' = IF p THEN "post" ELSE "update"
           /\ update' = IF p THEN update ELSE update + 1
    /\ evals' = evals + 1
    /\ UNCHANGED <<inv, cmb, twice, rng, fin, io, shuf, obj_func, input, gamma_index, seed, update_perm, chunks,
                   label, volume, can_change, modified, next_node, wk, costs,
                   files, visits, writes, stale>>

\* predicate.eval(..) || modified == 0, then break or the next update
EvalPredicate ==
    /\ gpc = "eval"
    /\ LET params == [modified |-> modified, update |-> update]
           p == PredEval(input.predicate, params)
           stop == p \/ modified = 0
       IN  /\ last_eval' = [modified |-> params.modified,
                            update |-> params.update,
                            pred |-> p,
                            changed |-> Cardinality({v \in Nodes : writes[v] > 0})]
           /\ gpc' = IF stop THEN "post" ELSE "update"
           /\ update' = IF stop THEN update ELSE update + 1
    /\ evals' = evals + 1
    /\ UNCHANGED <<inv, cmb, twice, rng, fin, io, shuf, obj_func, input, gamma_index, seed, update_perm, chunks,
                   label, volume, can_change, modified, next_node, wk, costs,
                   files, visits, writes, stale>>

\* labels.serialize(&mut file): the words of the file, the length of the
\* slice and then its elements
Serialize(lab) == <<Len0(lab)>> \o [i \in 1 .. Len0(lab) |-> lab[i - 1]]

\* Deserialize taking the length word for the first element
DeserializeFromLength(f) == [i \in Idx(f[1]) |-> f[i + 1]]

\* <Vec<usize>>::load_mem: the slice of the length read, over the words
\* that follow it
Deserialize(f) == [i \in Idx(f[1]) |-> f[i + 2]]

\* the prefixes a failed serialisation can leave in the file
Truncated(lab) == {SubSeq(Serialize(lab), 1, k) : k \in 0 .. Len0(lab)}

\* PostGamma going on after a failure of File::create
PostGammaSkipFile ==
    /\ gpc = "post"
    /\ update_perm' = SortedByLabel(label)
    /\ costs' = Append(costs, LogGapCost(update_perm'))
    /\ \/ /\ files' = Append(files, Serialize(label))
          /\ UNCHANGED err
       \/ /\ err' = "Could not write labels"
          /\ UNCHANGED files
       \/ /\ err' = "Could not serialize labels"
          /\ files' \in {Append(files, t) : t \in Truncated(label)}
    /\ gamma_index' = gamma_index + 1
    /\ gpc' = IF gamma_index + 1 < Len(input.gammas) THEN "gamma" ELSE "combine"
    /\ UNCHANGED <<inv, cmb, twice, rng, fin, shuf, obj_func, input, update, seed, chunks,
                   label, volume, can_change, modified, next_node, wk, visits,
                   writes, stale, evals, last_eval>>

\* after the loop: the permutation of the gamma, its cost, its label file;
\* File::create or serialize may fail, and the error is returned
PostGamma ==
    /\ gpc = "post"
    /\ update_perm' = SortedByLabel(label)
    /\ costs' = Append(costs, LogGapCost(update_perm'))
    /\ \/ /\ files' = Append(files, Serialize(label))
          /\ gamma_index' = gamma_index + 1
          /\ gpc' = IF gamma_index + 1 < Len(input.gammas) THEN "gamma"
                    ELSE "combine"
          /\ UNCHANGED err
       \/ /\ err' = "Could not write labels"
          /\ gpc' = "error"
          /\ UNCHANGED <<files, gamma_index>>
       \/ /\ err' = "Could not serialize labels"
          /\ files' \in {Append(files, t) : t \in Truncated(label)}
          /\ gpc' = "error"
          /\ UNCHANGED gamma_index
    /\ UNCHANGED <<inv, cmb, twice, rng, fin, shuf, obj_func, input, update, seed, chunks,
                   label, volume, can_change, modified, next_node, wk, visits,
                   writes, stale, evals, last_eval>>

\* the closure of the sort of gamma_indices over all pairs: descending cost
CostOrder == {ab \in Idx(Len(costs)) \X Idx(Len(costs)) :
                 costs[ab[2] + 1] < costs[ab[1] + 1]}

\* load_mem(labels_path(gamma_index))
LoadLabels(g) == Deserialize(files[g + 1])

\* after the gamma loop: the gammas sorted by cost, the labels of the best
\* one loaded as result_labels; last().unwrap() panics when there is no
\* gamma, and load_mem may fail
CombineStart ==
    /\ gpc = "combine"
    /\ gamma_indices' = StableSortIdentity(Len(costs), CostOrder)
    /\ step' = 0
    /\ IF Len(costs) = 0
       THEN /\ gpc' = "panic"
            /\ UNCHANGED <<result_labels, err>>
       ELSE \/ /\ result_labels' = LoadLabels(gamma_indices'[Len(costs) - 1])
               /\ gpc' = "combining"
               /\ UNCHANGED err
            \/ /\ err' = "Could not load labels from best gammar"
               /\ gpc' = "error"
               /\ UNCHANGED result_labels
    /\ UNCHANGED <<inv, cmb, twice, rng, calls, ret, shuf, obj_func, input, gamma_index, update,
                   seed, update_perm, chunks, label, volume, can_change,
                   modified, next_node, wk, costs, files, visits, writes,
                   stale, evals, last_eval>>

\* CombineStep with the two combine calls in the other order
CombineStepBestFirst ==
    /\ gpc = "combining"
    /\ LET best == gamma_indices[Len0(gamma_indices) - 1]
           c1 == combine(result_labels, LoadLabels(best))
           c2 == combine(c1.result, LoadLabels(gamma_indices[step]))
       IN  \/ /\ err' = "Could not load labels"
              /\ gpc' = "error"
              /\ UNCHANGED <<result_labels, update_perm, calls, ret, step>>
           \/ /\ c1.panic
              /\ gpc' = "panic"
              /\ UNCHANGED <<result_labels, update_perm, calls, ret, step, err>>
           \/ /\ ~c1.panic
              /\ err' = "Could not load labels from best gamma"
              /\ gpc' = "error"
              /\ result_labels' = c1.result
              /\ update_perm' = c1.temp
              /\ calls' = Append(calls, best)
              /\ ret' = [first |-> c1.k, mid |-> c1.result, second |-> 0]
              /\ UNCHANGED step
           \/ /\ ~c1.panic
              /\ result_labels' = c2.result
              /\ update_perm' = c2.temp
              /\ calls' = calls \o <<best, gamma_indices[step]>>
              /\ ret' = [first |-> c1.k, mid |-> c1.result, second |-> c2.k]
              /\ step' = step + 1
              /\ gpc' = IF step + 1 < Len0(gamma_indices) THEN "combining"
                        ELSE "done"
              /\ UNCHANGED err
    /\ UNCHANGED <<inv, cmb, twice, rng, shuf, obj_func, input, gamma_index, update, seed,
                   chunks, label, volume, can_change, modified, next_node, wk,
                   costs, files, gamma_indices, visits, writes, stale, evals,
                   last_eval>>

\* one iteration of the combine loop: the labels of the gamma are loaded and
\* combined, then those of the best gamma; a load may fail, and combine
\* panics on no node; after the last iteration result_labels is returned
CombineStep ==
    /\ gpc = "combining"
    /\ LET best == gamma_indices[Len0(gamma_indices) - 1]
           c1 == combine(result_labels, LoadLabels(gamma_indices[step]))
           c2 == combine(c1.result, LoadLabels(best))
       IN  \/ /\ err' = "Could not load labels"
              /\ gpc' = "error"
              /\ UNCHANGED <<result_labels, update_perm, calls, ret, step>>
           \/ /\ c1.panic
              /\ gpc' = "panic"
              /\ UNCHANGED <<result_labels, update_perm, calls, ret, step, err>>
           \/ /\ ~c1.panic
              /\ err' = "Could not load labels from best gamma"
              /\ gpc' = "error"
              /\ result_labels' = c1.result
              /\ update_perm' = c1.temp
              /\ calls' = Append(calls, gamma_indices[step])
              /\ ret' = [first |-> c1.k, mid |-> c1.result, second |-> 0]
              /\ UNCHANGED step
           \/ /\ ~c1.panic
              /\ result_labels' = c2.result
              /\ update_perm' = c2.temp
              /\ calls' = calls \o <<gamma_indices[step], best>>
              /\ ret' = [first |-> c1.k, mid |-> c1.result, second |-> c2.k]
              /\ step' = step + 1
              /\ gpc' = IF step + 1 < Len0(gamma_indices) THEN "combining"
                        ELSE "done"
              /\ UNCHANGED err
    /\ UNCHANGED <<inv, cmb, twice, rng, shuf, obj_func, input, gamma_index, update, seed,
                   chunks, label, volume, can_change, modified, next_node, wk,
                   costs, files, gamma_indices, visits, writes, stale, evals,
                   last_eval>>

Next ==
    \/ Setup
    \/ GammaStart
    \/ BeginUpdate
    \/ ShuffleChunk
    \/ StartPass
    \/ \E w \in Workers : TakeRange(w)
    \/ \E w \in Workers : LoadFlag(w)
    \/ \E w \in Workers : StoreFlag(w)
    \/ \E w \in Workers : ReadCurr(w)
    \/ \E w \in Workers : ReadSucc(w)
    \/ \E w \in Workers : Score(w)
    \/ \E w \in Workers : ScoreOverflow(w)
    \/ \E w \in Workers : ModifiedInc(w)
    \/ \E w \in Workers : FlagSucc(w)
    \/ \E w \in Workers : VolumeSetDec(w)
    \/ \E w \in Workers : VolumeSetStore(w)
    \/ \E w \in Workers : VolumeSetInc(w)
    \/ JoinPass
    \/ EvalPredicate
    \/ PostGamma
    \/ CombineStart
    \/ CombineStep

Spec == Init /\ [][Next]_vars

(***************************************************************************)
(* FairSpec: the runs on Edge2 in chunks of one, of one thread and, with   *)
(* one gamma, of two, in which no thread that can take a step waits for    *)
(* ever.                                                                   *)
(***************************************************************************)
FairInputs ==
    {i \in SeqInputs \cup ParInputs :
        /\ i.graph = Edge2
        /\ i.chunk_size = 1
        /\ i.num_threads = 2 => Len(i.gammas) = 1}

InitFair ==
    /\ input \in FairInputs
    /\ run = 0
    /\ AtCall

FairSpec == InitFair /\ [][Next]_vars /\ WF_vars(Next)

(***************************************************************************)
(* SpecCliques: one thread on the graph of two disjoint cliques of four    *)
(* nodes, {0..3} and {4..7}, with the schedule {0.1}, in chunks of one and *)
(* with a predicate that stops the updates after the second.               *)
(***************************************************************************)
Cliques8 ==
    [v \in Idx(8) |->
        LET base == 4 * (v \div 4)
        IN  SelectSeq(<<base, base + 1, base + 2, base + 3>>,
                      LAMBDA u : u # v)]

CliqueInputs ==
    [graph : {Cliques8}, gammas : {<< <<1, 10>> >>}, chunk_size : {1},
     granularity : {2}, num_threads : {1},
     predicate : {[max_updates |-> 2]}, seed : {0}]

InitCliques ==
    /\ input \in CliqueInputs
    /\ run = 0
    /\ AtCall

SpecCliques == InitCliques /\ [][Next]_vars

(***************************************************************************)
(* SpecStar: the call on one thread on the star of four nodes with centre  *)
(* 0, with the schedule {0.5, 1}, the whole permutation in one chunk and a *)
(* predicate that stops each gamma after its first or its second update.   *)
(***************************************************************************)
Star4 == [v \in Idx(4) |-> IF v = 0 THEN <<1, 2, 3>> ELSE <<0>>]

StarInputs ==
    [graph : {Star4}, gammas : {<< <<1, 2>>, <<1, 1>> >>}, chunk_size : {4},
     granularity : {2}, num_threads : {1},
     predicate : {[max_updates |-> 1], [max_updates |-> 2]}, seed : {0}]

InitStar ==
    /\ input \in StarInputs
    /\ run = 0
    /\ AtCall

SpecStar == InitStar /\ [][Next]_vars

(***************************************************************************)
(* SpecTwice: layered_label_propagation called twice with the same         *)
(* arguments on one thread.  The second call starts when the first has     *)
(* returned a labelling; its generators and its hasher are the functions   *)
(* of the first call.                                                      *)
(***************************************************************************)
MaxTwiceUpdates == 2

\* the calls made twice: Edge2 with every schedule and at most
\* MaxTwiceUpdates updates, and Star3 in one chunk with two gammas of one
\* update or one gamma of at most MaxTwiceUpdates updates
TwiceInputs ==
    {i \in SeqInputs :
        /\ i.predicate.max_updates <= MaxTwiceUpdates
        /\ \/ i.graph = Edge2
           \/ /\ i.graph = Star3
              /\ i.chunk_size = 3
              /\ i.granularity = 2
              /\ i.predicate.max_updates = 1 \/ Len(i.gammas) = 1}

InitTwice ==
    /\ input \in TwiceInputs
    /\ run = 1
    /\ AtCall

\* the first call has returned Ok: its files and its labelling are kept and
\* the function is called again
Rerun ==
    /\ run = 1
    /\ gpc = "done"
    /\ run' = 2
    /\ first' = [files |-> files, result |-> result_labels]
    /\ err' = ""
    /\ obj_func' = <<0, 0>>
    /\ calls' = <<>>
    /\ ret' = NoRet
    /\ chunk_seed' = <<>>
    /\ handed' = <<>>
    /\ gpc' = "setup"
    /\ gamma_index' = 0
    /\ update' = 0
    /\ seed' = input.seed
    /\ update_perm' = Identity(NumNodes)
    /\ chunks' = {}
    /\ label' = Identity(NumNodes)
    /\ volume' = [l \in Nodes |-> 1]
    /\ can_change' = [v \in Nodes |-> TRUE]
    /\ modified' = 0
    /\ next_node' = 0
    /\ wk' = [w \in Workers |-> WIdle]
    /\ costs' = <<>>
    /\ files' = <<>>
    /\ gamma_indices' = <<>>
    /\ result_labels' = <<>>
    /\ step' = 0
    /\ visits' = [v \in Nodes |-> 0]
    /\ writes' = [v \in Nodes |-> 0]
    /\ stale' = {}
    /\ evals' = 0
    /\ last_eval' = <<>>
    /\ UNCHANGED <<inv, cmb, input, rng>>

NextTwice == Next \/ Rerun

SpecTwice == InitTwice /\ [][NextTwice]_vars


(***************************************************************************)
(* SpecInvert: invert_in_place on every permutation of at most MaxPermLen  *)
(* elements, then once more on its output.                                 *)
(***************************************************************************)
InitInvert ==
    /\ \E n \in 0 .. MaxPermLen : \E q \in Perms(n) :
           inv = [s |-> InvStart(q), orig |-> q, round |-> 1, pc |-> "run"]
    /\ cmb = CmbOff
    /\ LlpOff

InvertStep ==
    /\ inv.pc = "run"
    /\ inv.s.pc \notin {"done", "panic"}
    /\ inv' = [inv EXCEPT !.s = InvStep(inv.s)]
    /\ UNCHANGED <<cmb, llpVars>>

InvertAgain ==
    /\ inv.pc = "run"
    /\ inv.s.pc = "done"
    /\ inv.round = 1
    /\ inv' = [inv EXCEPT !.s = InvStart(inv.s.perm), !.round = 2]
    /\ UNCHANGED <<cmb, llpVars>>

NextInvert == InvertStep \/ InvertAgain

SpecInvert == InitInvert /\ [][NextInvert]_vars

FairInvert == SpecInvert /\ WF_vars(NextInvert)

(***************************************************************************)
(* SpecCombine: combine on every pair of arrays of at most MaxLabLen       *)
(* elements with values in [0, n).                                         *)
(***************************************************************************)
\* the arrays 0,0,1,1,2,2 and 0,1,0,1,0,1
PairedResult == [i \in Idx(6) |-> i \div 2]
PairedLabels == [i \in Idx(6) |-> i % 2]

InitCombine ==
    /\ \/ \E n \in 1 .. MaxLabLen :
            \E r \in [Idx(n) -> Idx(n)] : \E l \in [Idx(n) -> Idx(n)] :
              cmb = [result |-> r, labels |-> l, before |-> r, k |-> 0,
                     pc |-> "call"]
       \/ cmb = [result |-> PairedResult, labels |-> PairedLabels,
                 before |-> PairedResult, k |-> 0, pc |-> "call"]
    /\ inv = InvOff
    /\ LlpOff

CombineCall ==
    /\ cmb.pc = "call"
    /\ LET out == combine(cmb.result, cmb.labels)
       IN  cmb' = [cmb EXCEPT !.result = out.result, !.k = out.k, !.pc = "ret"]
    /\ UNCHANGED <<inv, llpVars>>

NextCombine == CombineCall

SpecCombine == InitCombine /\ [][NextCombine]_vars

-----------------------------------------------------------------------------
InPass == gpc \in {"pass", "eval"}

\* the nodes holding label l
Population(l) == Cardinality({v \in Nodes : label[v] = l})

\* the workers between the first volume_fetch_sub of a node and the end of
\* its volume_set
InFlight ==
    Cardinality({w \in Workers :
        wk[w].pc \in {"score", "mod", "flag", "vs_dec", "vs_store", "vs_inc"}})

Abs(x) == IF x < 0 THEN 0 - x ELSE x

\* C1: volume conservation: after every completed volume_set the volumes
\* of all labels sum to n.
C1_VolumeConservation ==
    [][(\E w \in Workers : wk[w].pc = "vs_inc" /\ wk'[w].pc # "vs_inc")
          => SumOver(volume', Nodes) = NumNodes]_vars

\* C2: bounded volume skew: during a pass the volume of every label differs
\* from the number of nodes holding it by at most the number of scoring
\* operations in flight, hence by 0 when no worker is inside a visit.
C2_BoundedSkew ==
    InPass => \A l \in Nodes : Abs(volume[l] - Population(l)) <= InFlight

\* C3: at the end of every pass, a node with a successor whose label was
\* stored after the node last read it has its can_change flag set.
C3_FlagNotLost ==
    gpc = "eval" => \A a \in stale : can_change[a[1]]

\* C4: in every pass each node is visited exactly once: update_perm is a
\* permutation, the ranges held by the workers are disjoint, no node is
\* visited or has its label stored twice, and at the end of the pass every
\* node has been visited.
C4_VisitedOnce ==
    InPass =>
        /\ update_perm \in Perms(NumNodes)
        /\ \A v \in Nodes : visits[v] <= 1 /\ writes[v] <= 1
        /\ \A w1, w2 \in Workers :
              (w1 # w2 /\ wk[w1].pc \notin {"grab", "exit", "idle"}
                       /\ wk[w2].pc \notin {"grab", "exit", "idle"})
                  => (wk[w1].hi <= wk[w2].lo \/ wk[w2].hi <= wk[w1].lo)
        /\ gpc = "eval" => \A v \in Nodes : visits[v] = 1

C4_Witness ==
    /\ gpc = "eval"
    /\ input.num_threads = 2
    /\ input.granularity = 1
    /\ input.chunk_size = 2
    /\ NumNodes = 3
    /\ update_perm # Identity(NumNodes)
    /\ \A v \in Nodes : visits[v] = 1
    /\ \E v \in Nodes : writes[v] = 1

StopAt(e) == e.pred \/ e.modified = 0

\* C5: stopping rule: the predicate is evaluated once after each pass, with
\* modified the number of nodes whose label changed in the pass and update
\* the index of the pass; the iteration of a gamma goes on while no pass
\* made the predicate true or modified 0, and ends right after the first
\* that does, so after at least one pass.
C5_StoppingRule ==
    /\ gpc \in {"update", "shuffle", "pass", "eval"} =>
          /\ evals = update
          /\ evals > 0 => ~StopAt(last_eval)
    /\ gpc = "post" =>
          /\ evals = update + 1
          /\ StopAt(last_eval)
    /\ (gpc \in {"update", "shuffle", "pass", "eval", "post"} /\ evals > 0) =>
          /\ last_eval.update = evals - 1
          /\ last_eval.modified = last_eval.changed
          /\ last_eval.pred = PredEval(input.predicate, last_eval)

C5_Witness ==
    /\ gpc = "post"
    /\ evals = 2
    /\ last_eval.modified = 0
    /\ ~last_eval.pred

-----------------------------------------------------------------------------
Range(f) == {f[x] : x \in DOMAIN f}

CmbRet == cmb.pc = "ret"

\* C6: combine refines both inputs: two vertices that differ in result or in
\* labels before the call differ in result after it.
C6_CombineRefines ==
    CmbRet => \A u, v \in DOMAIN cmb.result :
                 (cmb.before[u] # cmb.before[v] \/ cmb.labels[u] # cmb.labels[v])
                     => cmb.result[u] # cmb.result[v]

C6_Witness ==
    /\ CmbRet
    /\ \E u, v \in DOMAIN cmb.result :
          /\ cmb.before[u] = cmb.before[v]
          /\ cmb.labels[u] # cmb.labels[v]
          /\ cmb.result[u] # cmb.result[v]
    /\ \E u, v \in DOMAIN cmb.result :
          /\ cmb.before[u] # cmb.before[v]
          /\ cmb.labels[u] = cmb.labels[v]

\* C7: label density: after combine the values of result are exactly
\* 0..k-1, and k is the number of distinct (result, labels) pairs before it.
C7_CombineDense ==
    CmbRet => /\ Range(cmb.result) = 0 .. (cmb.k - 1)
              /\ cmb.k = Cardinality({<<cmb.before[v], cmb.labels[v]>> :
                                          v \in DOMAIN cmb.result})

C7_Witness ==
    /\ CmbRet
    /\ Len0(cmb.result) = 3
    /\ cmb.k = 2
    /\ Cardinality(Range(cmb.before)) = 2
    /\ cmb.before # cmb.result

\* C8: combine monotonicity: k is at least the number of distinct values of
\* result before the call and at least the number of distinct values of labels.
C8_CombineMonotone ==
    CmbRet => /\ cmb.k >= Cardinality(Range(cmb.before))
              /\ cmb.k >= Cardinality(Range(cmb.labels))

C8_Witness ==
    /\ CmbRet
    /\ cmb.k > Cardinality(Range(cmb.before))
    /\ cmb.k > Cardinality(Range(cmb.labels))
    /\ Cardinality(Range(cmb.labels)) > 1

InvDone(r) == inv.pc = "run" /\ inv.s.pc = "done" /\ inv.round = r

\* C9: inversion correctness: on every permutation q, invert_in_place
\* terminates and leaves p with p[q[i]] = i for all i; [3,0,1,2] becomes
\* [1,2,3,0].
C9_InversionCorrect ==
    /\ <>InvDone(1)
    /\ [](InvDone(1) =>
            /\ \A i \in DOMAIN inv.orig : inv.s.perm[inv.orig[i]] = i
            /\ inv.orig = [i \in Idx(4) |-> (i + 3) % 4]
                  => inv.s.perm = [i \in Idx(4) |-> (i + 1) % 4])

C9_Witness ==
    /\ InvDone(1)
    /\ inv.orig = [i \in Idx(4) |-> (i + 3) % 4]
    /\ inv.s.perm = [i \in Idx(4) |-> (i + 1) % 4]

\* C10: inversion is involutive: invert_in_place applied twice to a
\* permutation yields the permutation again.
C10_InversionInvolutive ==
    (inv.pc = "run" /\ inv.round = 2 /\ inv.s.pc \in {"done", "panic"})
        => (inv.s.pc = "done" /\ inv.s.perm = inv.orig)

C10_Witness ==
    /\ InvDone(2)
    /\ inv.s.perm = inv.orig
    /\ \E i \in DOMAIN inv.orig : inv.orig[inv.orig[i]] # i

\* the gamma the combine phase takes as the best one
BestGamma == gamma_indices[Len0(gamma_indices) - 1]

InCombineLoop == gpc \in {"combining", "done"}

\* C11: the combine phase starts only when every gamma of the schedule has
\* stopped and has its cost recorded; the result starts as the labels of a
\* gamma of minimum cost, the last of the order; the gammas are taken in
\* non-increasing order of cost, the best one included; and the combine calls
\* made are, step by step, the labels of the gamma of the step and then the
\* labels of the best gamma.
C11_CombineSequence ==
    /\ gpc \in {"combine", "combining", "done"} =>
         /\ gamma_index = Len(input.gammas)
         /\ Len(costs) = Len(input.gammas)
         /\ Len(files) = Len(input.gammas)
    /\ gpc \notin {"combining", "done", "error", "panic"} => calls = <<>>
    /\ InCombineLoop =>
         /\ {gamma_indices[i] : i \in DOMAIN gamma_indices} = Idx(Len(costs))
         /\ DOMAIN gamma_indices = Idx(Len(costs))
         /\ \A i, j \in DOMAIN gamma_indices :
               i < j => costs[gamma_indices[i] + 1] >= costs[gamma_indices[j] + 1]
         /\ \A g \in Idx(Len(costs)) : costs[BestGamma + 1] <= costs[g + 1]
         /\ step = 0 => result_labels = LoadLabels(BestGamma)
         /\ Len(calls) = 2 * step
         /\ gpc = "done" <=> step = Len(costs)
    /\ \A k \in 1 .. Len(calls) :
         calls[k] = IF k % 2 = 1 THEN gamma_indices[(k - 1) \div 2]
                    ELSE BestGamma

\* a finished run of two gammas in which the first gamma is the best, so
\* that the order of the steps is not the order of the schedule
C11_Witness ==
    /\ gpc = "done"
    /\ Len(costs) = 2
    /\ costs[1] < costs[2]
    /\ calls = <<1, 0, 0, 0>>

\* a run on at least one node, no arc and at least one gamma
ZeroArcs ==
    /\ NumNodes >= 1
    /\ \A v \in Nodes : Outdegree(v) = 0
    /\ Len(input.gammas) >= 1

\* C12: on a graph of n >= 1 nodes and no arc, with a schedule that is not
\* empty, every gamma stops after its first pass with modified = 0, the
\* labels of every gamma are the identity, and the labelling returned after
\* the combine steps is the identity.
C12_IsolatedVertices ==
    ZeroArcs =>
      /\ update = 0
      /\ evals <= 1
      /\ modified = 0
      /\ gpc \in {"post", "gamma", "combine", "combining", "done"} /\ gamma_index > 0
           => evals = 1 /\ last_eval.modified = 0
      /\ label = Identity(NumNodes)
      /\ gpc # "error" => \A g \in Idx(Len(files)) : LoadLabels(g) = Identity(NumNodes)
      /\ InCombineLoop => result_labels = Identity(NumNodes)

\* a run of two threads on Isolated3 that has returned the labelling of two
\* gammas, under a predicate that allows three updates
C12_Witness ==
    /\ ZeroArcs
    /\ gpc = "done"
    /\ input.num_threads = 2
    /\ input.predicate.max_updates = 3
    /\ Len(files) = 2
    /\ step = 2
    /\ result_labels = Identity(3)

\* the inputs the specification calls invalid
InvalidInput == NumNodes = 0 \/ Len(input.gammas) = 0

\* C15: on an empty schedule or a graph without nodes the function returns
\* an error before any pass, any label file and any combine step: it neither
\* panics nor goes on into the gamma loop or the combine phase.
C15_InvalidInputReported ==
    InvalidInput =>
      /\ gpc \in {"setup", "error"}
      /\ evals = 0
      /\ files = <<>>
      /\ calls = <<>>

FileErrors == {"Could not write labels", "Could not serialize labels"}

LoadErrors ==
    {"Could not load labels from best gammar", "Could not load labels",
     "Could not load labels from best gamma"}

\* what has run when the error err is returned
StoppedAtFailure ==
    /\ err = "Could not create thread pool" =>
         /\ gamma_index = 0 /\ costs = <<>> /\ files = <<>>
         /\ evals = 0 /\ handed = <<>> /\ calls = <<>>
    /\ err \in FileErrors =>
         /\ gamma_index < Len(input.gammas)
         /\ Len(costs) = gamma_index + 1
         /\ Len(files) = gamma_index + (IF err = "Could not write labels" THEN 0 ELSE 1)
         /\ gamma_indices = <<>> /\ calls = <<>>
    /\ err \in LoadErrors =>
         /\ step < Len(costs)
         /\ Len(calls) = 2 * step +
               (IF err = "Could not load labels from best gamma" THEN 1 ELSE 0)
         /\ err = "Could not load labels from best gammar" => step = 0

\* C16: a failure of the creation of the pool, of the creation or the
\* serialisation of a label file, or of a load in the combine phase, ends
\* the run with an error: nothing runs after it (no gamma after a failed
\* pool or file, no combine step after a failed file or load), and the
\* caller gets the error, not a labelling.
C16_FailuresStopTheRun ==
    /\ [](/\ err # "" <=> gpc = "error"
          /\ err \in {"", "Could not create thread pool"} \cup FileErrors \cup LoadErrors
          /\ gpc = "error" => StoppedAtFailure)
    /\ [][gpc # "error" /\ (gpc' = "error" => gpc \in {"setup", "post", "combine", "combining"})]_vars

\* the file of the first of two gammas could not be serialised: the second
\* gamma and the combine phase have not run
C16_Witness ==
    /\ gpc = "error"
    /\ err = "Could not serialize labels"
    /\ Len(input.gammas) = 2
    /\ gamma_index = 0
    /\ evals = 1
    /\ Len(handed) = NumChunks

\* the gamma loop is between the end of a gamma and the next thing it does:
\* update_perm is the permutation of that gamma and label its labels
AfterGamma == gpc \in {"gamma", "combine"} /\ gamma_index > 0

\* (label[u], u) < (label[v], v) in the lexicographic order
LabelThenId(u, v) == label[u] < label[v] \/ (label[u] = label[v] /\ u < v)

\* C17: the permutation of a gamma, made by the identity reset, the stable
\* sort by label and the inversion in place, is a permutation pi of [0, n)
\* with pi(u) < pi(v) iff (label[u], u) < (label[v], v); the nodes of each
\* label then take a contiguous block of positions.
C17_PermutationByLabel ==
    AfterGamma =>
      /\ DOMAIN update_perm = Nodes
      /\ {update_perm[v] : v \in Nodes} = Nodes
      /\ \A u, v \in Nodes : update_perm[u] < update_perm[v] <=> LabelThenId(u, v)
      /\ \A u, v, w \in Nodes :
           /\ label[u] = label[w]
           /\ update_perm[u] < update_perm[v]
           /\ update_perm[v] < update_perm[w]
           => label[v] = label[u]

\* the labels 2, 1, 1: the sorted order of the nodes is 1, 2, 0 and the
\* permutation is its inverse 2, 0, 1
C17_Witness ==
    /\ AfterGamma
    /\ label = [v \in Idx(3) |-> IF v = 0 THEN 2 ELSE 1]
    /\ update_perm = [v \in Idx(3) |-> (v + 2) % 3]

\* the first pass of a gamma is about to hand out its first range
FirstPassStart ==
    /\ gpc = "pass"
    /\ update = 0
    /\ next_node = 0
    /\ \A w \in Workers : wk[w] = [WIdle EXCEPT !.pc = "grab"]

\* the visit orders a chunked shuffle of the identity can give
ShuffledIdentity(perm) ==
    /\ DOMAIN perm = Nodes
    /\ \A c \in Idx(NumChunks) : {perm[p] : p \in ChunkOf(c)} = ChunkOf(c)

\* C18: at the start of the first pass of every gamma, whatever the gamma
\* before it left, label[v] = v, volume[v] = 1 and can_change[v] = true for
\* every v and the cumulative objective is 0; what is carried over from the
\* gamma before is the seed counter, the costs and the label files only:
\* the visit order is a fresh chunked shuffle of the identity and modified
\* is 0.
C18_PerGammaReset ==
    FirstPassStart =>
      /\ label = Identity(NumNodes)
      /\ volume = [l \in Nodes |-> 1]
      /\ can_change = [v \in Nodes |-> TRUE]
      /\ obj_func = <<0, 0>>
      /\ modified = 0
      /\ ShuffledIdentity(update_perm)
      /\ Len(costs) = gamma_index
      /\ Len(files) = gamma_index
      /\ seed = input.seed + Len(handed)

\* the start of the second gamma after a first gamma that moved labels and
\* shuffled in more than one update
C18_Witness ==
    /\ FirstPassStart
    /\ gamma_index = 1
    /\ LoadLabels(0) # Identity(NumNodes)
    /\ last_eval = <<>>
    /\ seed > input.seed + NumChunks
    /\ \E l \in Nodes : label[l] = l /\ LoadLabels(0)[l] # l

\* C19: the volume of every label is non-negative in every reachable state:
\* as a machine word it never wraps below zero, so that `volume + 1` of the
\* score never overflows.
C19_VolumeNonNegative == \A l \in DOMAIN volume : volume[l] >= 0

\* the chunks shuffled so far in the current pass
ChunksDone == DOMAIN chunk_seed

\* C20: the seed counter is incremented once for each chunk shuffled, that
\* is ceil(n / chunk_size) times in a pass, and is never reset between
\* passes or gammas, so that under any interleaving of the shuffle no two
\* chunks of the run take the same seed.
C20_SeedPerChunk ==
    /\ seed = input.seed + Len(handed)
    /\ \A j, k \in 1 .. Len(handed) : j # k => handed[j] # handed[k]
    /\ NumChunks * input.chunk_size >= NumNodes
    /\ (NumChunks - 1) * input.chunk_size < NumNodes \/ NumNodes = 0
    /\ gpc = "shuffle" =>
         /\ ChunksDone = Idx(NumChunks) \ chunks
         /\ \A c, d \in ChunksDone : c # d => chunk_seed[c] # chunk_seed[d]
         /\ {chunk_seed[c] : c \in ChunksDone} =
               {handed[k] : k \in Len(handed) - Cardinality(ChunksDone) + 1 .. Len(handed)}
    /\ gpc \in {"update", "pass", "eval", "post"} /\ NumNodes > 0 =>
         /\ Len(handed) % NumChunks = 0
         /\ Len(handed) >= NumChunks * (update + (IF gpc = "update" THEN 0 ELSE 1))

\* the shuffle of a pass of the second gamma is over, on two threads that
\* took the chunks out of order
C20_Witness ==
    /\ input.num_threads = 2
    /\ gpc = "shuffle"
    /\ chunks = {}
    /\ gamma_index = 1
    /\ NumChunks >= 2
    /\ chunk_seed[0] > chunk_seed[1]
    /\ Len(handed) >= 2 * NumChunks

\* C14: two runs on several threads with the same graph, schedule, seed and
\* parameters differ only through the values of the volume reads; the seed
\* taken by each chunk of a shuffle, and so the visit order, does not depend
\* on the scheduling.  The chunks can be run in the order of the slice, so
\* the seed of chunk c is then, under every scheduling, the counter at the
\* start of the shuffle plus c.
C14_SeedsIndependentOfScheduling ==
    gpc = "shuffle" =>
      \A c \in ChunksDone : chunk_seed[c] = seed - Cardinality(ChunksDone) + c

\* C13: on one thread, with generators that are functions of their seeds,
\* two calls with the same graph, schedule, chunk size, granularity,
\* predicate and seed write the same label file for every gamma and return
\* the same labelling.
C13_SingleThreadDeterminism ==
    run = 2 =>
      /\ input.num_threads = 1
      /\ Len(files) <= Len(first.files)
      /\ gpc # "error" => \A g \in 1 .. Len(files) : files[g] = first.files[g]
      /\ gpc = "done" => files = first.files /\ result_labels = first.result

\* the second call has returned after two gammas; a chunk was shuffled, a tie
\* between two labels was broken in favour of the second, and the labelling
\* is not the identity
C13_Witness ==
    /\ run = 2
    /\ gpc = "done"
    /\ Len(files) = 2
    /\ result_labels # Identity(NumNodes)
    /\ \E k \in DOMAIN rng.pick : rng.pick[k] = 2
    /\ \E k \in DOMAIN rng.shuffle : rng.shuffle[k] # Identity(k[2])

\* the sort key of combine on the values before the call
KeyBefore(v) == <<cmb.before[cmb.labels[v]], cmb.labels[v], cmb.before[v]>>

LexLess(a, b) ==
    \/ a[1] < b[1]
    \/ a[1] = b[1] /\ a[2] < b[2]
    \/ a[1] = b[1] /\ a[2] = b[2] /\ a[3] < b[3]

\* C26: combine numbering order: the ids written by combine increase with
\* the key (result[labels[v]], labels[v], result[v]) taken before the call;
\* result = 0,0,1,1,2,2 with labels = 0,1,0,1,0,1 returns 6 and leaves
\* result = 0,3,1,4,2,5.
C26_CombineOrder ==
    CmbRet =>
      /\ \A u, v \in DOMAIN cmb.result :
           LexLess(KeyBefore(u), KeyBefore(v)) => cmb.result[u] < cmb.result[v]
      /\ cmb.before = PairedResult /\ cmb.labels = PairedLabels
           => /\ cmb.k = 6
              /\ cmb.result = [i \in Idx(6) |-> IF i % 2 = 0 THEN i \div 2
                                                ELSE 3 + i \div 2]

\* combine has returned on the arrays of the example: the ids are not in
\* index order
C26_Witness ==
    /\ CmbRet
    /\ cmb.before = PairedResult
    /\ cmb.labels = PairedLabels
    /\ cmb.result[1] > cmb.result[2]

\* the visit of worker w is over: it is at the next position of its range or
\* asks for a new range
VisitOver(w) ==
    \/ wk'[w].pc = "grab"
    \/ wk'[w].pc = "load" /\ wk'[w].pos = wk[w].pos + 1

\* C25: skipped visits change nothing: the visit of a vertex whose flag is
\* false ends at the load and leaves labels, volumes, flags and modified as
\* they are; the visit of a vertex with a true flag and out-degree 0 ends at
\* the store, which clears the flag of the vertex and changes nothing else.
C25_SkippedVisits ==
    [][\A w \in Workers :
         /\ (gpc = "pass" /\ wk[w].pc = "load" /\ wk'[w] # wk[w])
              => /\ UNCHANGED <<label, volume, can_change, modified>>
                 /\ ~can_change[update_perm[wk[w].pos]] => VisitOver(w)
         /\ (gpc = "pass" /\ wk[w].pc = "store" /\ wk'[w] # wk[w]
                 /\ Outdegree(wk[w].node) = 0)
              => /\ UNCHANGED <<label, volume, modified>>
                 /\ can_change' = [can_change EXCEPT ![wk[w].node] = FALSE]
                 /\ VisitOver(w)]_vars

\* a later pass has visited an isolated vertex, whose flag the first pass
\* cleared, while another vertex has changed its label
C25_Witness ==
    /\ gpc = "pass"
    /\ update >= 1
    /\ \E v \in Nodes :
         /\ Outdegree(v) = 0
         /\ visits[v] = 1
         /\ ~can_change[v]
         /\ label[v] = v
         /\ volume[v] = 1
    /\ \E u \in Nodes : label[u] # u

\* the nodes reached from those of S in at most k arcs
RECURSIVE ReachFrom(_, _)
ReachFrom(S, k) ==
    IF k = 0 THEN S
    ELSE ReachFrom(S \cup {u \in Nodes : \E v \in S :
                              \E i \in 1 .. Outdegree(v) : Successors(v)[i] = u},
                   k - 1)

\* the connected component of v
Component(v) == ReachFrom({v}, NumNodes)

\* C28: labels stay inside connected components: in every reachable state
\* label[v] is in [0, n) and is the id of a vertex of the component of v.
C28_LabelsInComponent ==
    \A v \in Nodes : label[v] \in Nodes /\ label[v] \in Component(v)

\* in a graph of more than one component a vertex has adopted the label of
\* another vertex while two workers are in a pass
C28_Witness ==
    /\ gpc = "pass"
    /\ \E v \in Nodes : Component(v) # Nodes /\ label[v] # v
    /\ \E v \in Nodes : Outdegree(v) > 0 /\ writes[v] > 0
    /\ input.num_threads = 2

\* the labels of the scores f that no other score of f exceeds
ArgMax(f) == {l \in DOMAIN f : \A m \in DOMAIN f : ~ValLess(f[l], f[m])}

\* worker w is in the loop over the histogram
Scoring(w) == gpc = "pass" /\ wk[w].pc = "score"

\* the scores of worker w after the step that takes the last entry l
LastVals(w, l) ==
    Put(wk[w].vals, l, Val(Gamma, wk[w].map[l], volume[l]))

\* the label worker w holds for its vertex after the choice
ChosenLabel(w) == IF wk'[w].pc = "mod" THEN wk'[w].next ELSE wk[w].curr

\* C24: argmax choice: while a vertex is scored, majorities holds exactly
\* the labels taken so far whose score equals the maximum and max is that
\* maximum; the current label is in the histogram; after the last entry the
\* set is non-empty, the label chosen is in it, and max - old, which is
\* added to the objective of the range, is not negative.
C24_ArgmaxChoice ==
    /\ [](\A w \in Workers : Scoring(w) =>
            LET r == wk[w]
            IN  /\ DOMAIN r.vals = DOMAIN r.map \ r.todo
                /\ r.curr \in DOMAIN r.map
                /\ r.maj = ArgMax(r.vals)
                /\ \A l \in r.maj : r.vals[l] = r.max
                /\ r.curr \in DOMAIN r.vals => r.old = r.vals[r.curr])
    /\ [][\A w \in Workers :
            (Scoring(w) /\ wk'[w] # wk[w] /\ Cardinality(wk[w].todo) = 1) =>
              \A l \in wk[w].todo :
                LET f == LastVals(w, l)
                    d == F64Sub(f[CHOOSE m \in ArgMax(f) : TRUE], f[wk[w].curr])
                IN  /\ ArgMax(f) # {}
                    /\ ChosenLabel(w) \in ArgMax(f)
                    /\ ~ValLess(d, <<0, 0>>)
                    /\ wk'[w].obj = F64Add(wk[w].obj, d)]_vars

\* a worker is scoring a vertex of three labels: the two it has taken tie
\* for the maximum, and the current label of the vertex is still to come
C24_Witness ==
    \E w \in Workers :
      /\ Scoring(w)
      /\ Cardinality(wk[w].maj) = 2
      /\ Cardinality(DOMAIN wk[w].vals) = 2
      /\ wk[w].todo = {wk[w].curr}

\* the label file of the last gamma that has stopped
LastFile == files[Len(files)]

Passes == IF gpc \in {"gamma", "setup"} THEN 0 ELSE update + 1

\* the schedule and the graph are not empty
ValidInput == NumNodes > 0 /\ Len(input.gammas) > 0

\* C27: termination under an update cap: with a predicate that is true from
\* update index U on, no gamma makes more than U + 1 passes, a gamma ends
\* only at an evaluation where the predicate holds or modified = 0, and a
\* run on a non-empty graph and schedule eventually returns a labelling,
\* unless a label file cannot be written or read.
C27_Terminates ==
    /\ [](gpc \in {"update", "shuffle", "pass", "eval", "post"}
            => Passes <= input.predicate.max_updates)
    /\ [][gpc' = "post" /\ gpc # "post"
            => gpc = "eval" /\ (last_eval'.pred \/ last_eval'.modified = 0)]_vars
    /\ (ValidInput => <>(gpc \in {"done", "error"}))

\* a and b induce the same partition of the vertices
SamePartition(a, b) ==
    /\ DOMAIN a = DOMAIN b
    /\ \A u, v \in DOMAIN a : a[u] = a[v] <=> b[u] = b[v]

\* a gives two vertices the same label only if b does
Refines(a, b) ==
    /\ DOMAIN a = DOMAIN b
    /\ \A u, v \in DOMAIN a : a[u] = a[v] => b[u] = b[v]

\* a step of the combine loop has made both its calls
StepDone == InCombineLoop /\ step > 0 /\ gpc # "error"

\* C29: recombination with the best labels never splits classes: in every
\* step of the combine phase the second call returns the number of classes
\* the first call returned and leaves the partition of result as the first
\* call made it; result refines the best labels all along.
C29_RecombinationKeepsClasses ==
    /\ InCombineLoop /\ gpc # "error" => Refines(result_labels, LoadLabels(BestGamma))
    /\ StepDone =>
         /\ ret.second = ret.first
         /\ SamePartition(ret.mid, result_labels)
         /\ ret.second = Cardinality(Range(result_labels))

\* a step of the combine loop is over: the best labels have two classes,
\* the first call split one of them, and the second call returned the
\* number of classes of the first
C29_Witness ==
    /\ StepDone
    /\ Cardinality(Range(LoadLabels(BestGamma))) > 1
    /\ ret.first > Cardinality(Range(LoadLabels(BestGamma)))
    /\ ret.second = ret.first

\* the vertices u and v have the same label in the file of every gamma
SameInEveryFile(u, v) ==
    \A g \in Idx(Len(files)) : LoadLabels(g)[u] = LoadLabels(g)[v]

Converged == gpc = "post" /\ last_eval.modified = 0

\* the positions of the nodes of S in the permutation of the gamma are
\* consecutive
Contiguous(S) ==
    LET pos == {SortedByLabel(label)[v] : v \in S}
    IN  SetMax(pos) - SetMin(pos) = Cardinality(S) - 1

\* C22: two cliques: on the two disjoint cliques of four nodes with the
\* schedule {0.1}, whatever the ties, the iteration does not abort, makes at
\* most three passes, and when it stops with modified = 0 two labels
\* remain, one per clique, and each clique is a block of the permutation.
\* (The runs of SpecCliques are cut after two passes: what they refute is
\* the part about the runs that abort or stop by then.)
C22_TwoCliques ==
    /\ gpc # "panic"
    /\ gpc \in {"update", "shuffle", "pass", "eval", "post"} => Passes <= 3
    /\ Converged =>
         /\ Cardinality(Range(label)) = 2
         /\ \A u, v \in Nodes : label[u] = label[v] <=> u \div 4 = v \div 4
         /\ Contiguous(0 .. 3)
         /\ Contiguous(4 .. 7)

\* the smallest of the costs recorded for the gammas of the schedule
BestCost == SetMin({costs[i] : i \in DOMAIN costs})

\* C23: non-degradation of cost: when the call has returned on a star, a
\* path or the two cliques, the log-gap cost of the permutation that sorts
\* the nodes by the returned labels (inverted) is at most the smallest cost
\* recorded for a gamma of the schedule.
C23_CostNotDegraded ==
    gpc = "done" => LogGapCost(SortedByLabel(result_labels)) <= BestCost

=============================================================================
